---- MODULE Spec2Model ----
(***************************************************************************)
(* Model of Python/2ETL/Project_3/banks_project.py: a top-level script     *)
(* that extracts a table of banks from a web page, converts the market     *)
(* capitalisation to three currencies, saves the frame to a CSV file and a *)
(* SQLite table, runs three queries and prints the log file.               *)
(*                                                                         *)
(* Floats are represented exactly as integers counting hundredths          *)
(* (100.0 is 10000); exchange rates are hundredths too (0.93 is 93).       *)
(* A function that can raise is an operator returning a record whose exc   *)
(* field is "none" or the name of the exception, together with the state   *)
(* it leaves behind.                                                       *)
(***************************************************************************)
EXTENDS Integers, Sequences, FiniteSets, TLC

\* Bounds of the model.
MaxRows == 3
MaxFailAfter == 8

NoExc == "none"

(***************************************************************************)
(* The module-level configuration of the script.                           *)
(***************************************************************************)
table_attribs == <<"Name", "MC_USD_Billion">>
currencies == <<"GBP", "EUR", "INR">>

Column(currency) == "MC_" \o currency \o "_Billion"

DerivedColumns == {Column(currencies[i]) : i \in 1..Len(currencies)}

(***************************************************************************)
(* The environment: the page behind url, the file exchange_rate.csv.       *)
(* A page is the sequence of its tbody elements, a tbody the sequence of   *)
(* its tr rows.  A row has tds td cells; its second cell holds links a     *)
(* elements, the second of which has the title attribute title; its third  *)
(* cell starts with the text node text, a sequence of characters.          *)
(***************************************************************************)
Row(tds, links, title, text) ==
    [tds |-> tds, links |-> links, title |-> title, text |-> text]

HeaderRow == Row(0, 0, "", <<>>)

GoodRows ==
    { Row(3, 2, "A", <<"1", "0", "0", ".", "0", "\n">>),
      Row(3, 2, "B", <<"5", "0", ".", "0", "\n">>),
      Row(3, 2, "C", <<"1", "0", ".", "0", "\n">>) }

\* A row without a third cell, and a row whose third cell is not a number.
BadRows ==
    { Row(2, 2, "S", <<>>),
      Row(3, 2, "T", <<"x", "\n">>) }

Rows == {HeaderRow} \cup GoodRows \cup BadRows

RECURSIVE SeqsUpTo(_, _)
SeqsUpTo(S, n) ==
    IF n = 0 THEN {<<>>}
    ELSE LET shorter == SeqsUpTo(S, n - 1)
         IN  shorter \cup {Append(s, x) : s \in shorter, x \in S}

TBodies == SeqsUpTo(Rows, MaxRows)

\* A second tbody of the page, which the script never reads.
OtherTBody == <<Row(3, 2, "Z", <<"7", "\n">>)>>

Pages == {<<>>} \cup {<<t>> : t \in TBodies} \cup {<<t, OtherTBody>> : t \in TBodies}

\* exchange_rate.csv: the Rate column indexed by Currency, in hundredths.
Rates(present) ==
    [c \in present |->
        CASE c = "GBP" -> 80
          [] c = "EUR" -> 93
          [] c = "INR" -> 8250]

RateFiles ==
    { [readable |-> TRUE, rates |-> Rates({"GBP", "EUR", "INR"})],
      [readable |-> TRUE, rates |-> Rates({"GBP"})],
      [readable |-> TRUE, rates |-> Rates({})],
      [readable |-> FALSE, rates |-> Rates({})] }

(***************************************************************************)
(* A DataFrame is a function from its column names to the columns, each a  *)
(* sequence of values; an SQL table is stored the same way.                *)
(***************************************************************************)
DataFrame(columns) == [c \in {columns[i] : i \in 1..Len(columns)} |-> <<>>]

NRows(df) == IF "Name" \in DOMAIN df THEN Len(df["Name"]) ELSE 0

\* pd.concat([df1, df], ignore_index=True): the arguments swapped.
concat_swapped(df, df1) == [c \in DOMAIN df |-> <<df1[c]>> \o df[c]]

\* pd.concat([df, df1], ignore_index=True) with a one-row df1.
concat(df, df1) == [c \in DOMAIN df |-> Append(df[c], df1[c])]

\* df[column] = values
SetColumn(df, column, values) ==
    [c \in DOMAIN df \cup {column} |-> IF c = column THEN values ELSE df[c]]

\* A table left in Banks.db by an earlier run.
StaleTable ==
    [c \in {"Name", "MC_USD_Billion"} \cup DerivedColumns |->
        IF c = "Name" THEN <<"Old">> ELSE <<700>>]

PriorTables == {<<>>, <<StaleTable>>}

(***************************************************************************)
(* State.                                                                  *)
(*   pc              the top-level statement the script is about to run    *)
(*   page, rateFile  the environment's page and exchange_rate.csv          *)
(*   bound           the names df_extracted, df_transformed bound so far   *)
(*   frame           the one DataFrame object df_extracted (and, once      *)
(*                   bound, df_transformed) refers to                      *)
(*   log             code_log.txt: the entries written, in order           *)
(*   csv             Largest_banks_data.csv: <<>> or <<its frame>>         *)
(*   db              table Largest_banks of Banks.db: <<>> or <<table>>    *)
(*   conns           every connection sqlite3.connect has returned         *)
(*   sql_connection  index in conns of the connection the name refers to,  *)
(*                   0 while the name is unbound                           *)
(*   results         what the run_queries calls returned, in order         *)
(*   events          history: the calls, returns and raises of the stages  *)
(***************************************************************************)
VARIABLES pc, page, rateFile, bound, frame, log, csv, db, conns,
          sql_connection, results, events

vars == <<pc, page, rateFile, bound, frame, log, csv, db, conns,
          sql_connection, results, events>>

(***************************************************************************)
(* log_progress.  A sink is the log file together with what the medium     *)
(* will do during the running statement: if fails, the writes after the    *)
(* first `after` ones raise OSError from open/write.                       *)
(***************************************************************************)
Sinks ==
    {[fails |-> FALSE, after |-> 0]} \cup
    {[fails |-> TRUE, after |-> k] : k \in 0..MaxFailAfter}

Entry(message, n, err) == [message |-> message, n |-> n, err |-> err]

OpenSink(entries, medium) ==
    [entries |-> entries, fails |-> medium.fails, after |-> medium.after,
     raised |-> FALSE, failed |-> FALSE]

\* The sink after one call of log_progress: raised tells whether this call
\* raised, failed whether any call on this sink has.
Write(sink, entry) ==
    IF sink.fails /\ sink.after = 0
    THEN [sink EXCEPT !.raised = TRUE, !.failed = TRUE]
    ELSE [sink EXCEPT !.entries = Append(@, entry),
                      !.after = IF sink.fails THEN @ - 1 ELSE @,
                      !.raised = FALSE]

\* log_progress(message), message being a text, a text with str(e), or a
\* text with a number.
log_progress(sink, message) == Write(sink, Entry(message, 0, ""))

log_error(sink, message, e) == Write(sink, Entry(message, 0, e))

log_count(sink, message, n) == Write(sink, Entry(message, n, ""))

(***************************************************************************)
(* float(s) for the texts of the page: optional surrounding whitespace,    *)
(* digits, at most one point and at most two decimals.  The value is in    *)
(* hundredths.                                                             *)
(***************************************************************************)
DigitVal ==
    [c \in {"0", "1", "2", "3", "4", "5", "6", "7", "8", "9"} |->
        CASE c = "0" -> 0 [] c = "1" -> 1 [] c = "2" -> 2 [] c = "3" -> 3
          [] c = "4" -> 4 [] c = "5" -> 5 [] c = "6" -> 6 [] c = "7" -> 7
          [] c = "8" -> 8 [] c = "9" -> 9]

RECURSIVE DigitsValue(_)
DigitsValue(s) ==
    IF s = <<>> THEN 0
    ELSE 10 * DigitsValue(SubSeq(s, 1, Len(s) - 1)) + DigitVal[s[Len(s)]]

RECURSIVE strip(_)
strip(s) ==
    IF s # <<>> /\ s[Len(s)] = "\n" THEN strip(SubSeq(s, 1, Len(s) - 1))
    ELSE IF s # <<>> /\ s[1] = "\n" THEN strip(Tail(s))
    ELSE s

Points(s) == {i \in 1..Len(s) : s[i] = "."}

\* The number written as whole.decimals, or ValueError.
Number(s, whole, decimals) ==
    IF \/ Cardinality(Points(s)) > 1
       \/ \E i \in 1..Len(s) : s[i] # "." /\ s[i] \notin DOMAIN DigitVal
       \/ Len(whole) + Len(decimals) = 0
       \/ Len(decimals) > 2
    THEN [exc |-> "ValueError", value |-> 0]
    ELSE [exc |-> NoExc,
          value |-> 100 * DigitsValue(whole)
                    + (IF Len(decimals) = 1 THEN 10 ELSE 1) * DigitsValue(decimals)]

SplitAt(s, point) == Number(s, SubSeq(s, 1, point - 1), SubSeq(s, point + 1, Len(s)))

Stripped(s) ==
    SplitAt(s, IF \E i \in 1..Len(s) : s[i] = "."
               THEN CHOOSE i \in 1..Len(s) : s[i] = "."
               ELSE Len(s) + 1)

float(text) == Stripped(strip(text))


(***************************************************************************)
(* Frames, tables and the store (pandas and sqlite3 as the script uses     *)
(* them).                                                                  *)
(***************************************************************************)
\* Lines 47-52 for one row: the frame after the row, or the exception.
NewRow(df, title, mc) ==
    [exc |-> mc.exc,
     df |-> IF mc.exc # NoExc THEN df
            ELSE concat(df, [Name |-> title, MC_USD_Billion |-> mc.value])]

ExtractRow(df, row) ==
    IF row.tds = 0 THEN [exc |-> NoExc, df |-> df]
    ELSE IF row.tds < 2 \/ row.links < 2 \/ row.tds < 3
         THEN [exc |-> "IndexError", df |-> df]
    ELSE NewRow(df, row.title, float(SubSeq(row.text, 1, Len(row.text) - 1)))

\* The loop of lines 46-52 over rows[i..]; r is the frame so far, or the
\* exception that ended the loop.
RECURSIVE ExtractRows(_, _, _)
ExtractRows(rows, i, r) ==
    IF i > Len(rows) \/ r.exc # NoExc THEN r
    ELSE ExtractRows(rows, i + 1, ExtractRow(r.df, rows[i]))

\* Lines 39-52: the rows of the first tbody, into a new frame.
Parse(pg) ==
    IF pg = <<>> THEN [exc |-> "IndexError", df |-> DataFrame(table_attribs)]
    ELSE ExtractRows(pg[1], 1, [exc |-> NoExc, df |-> DataFrame(table_attribs)])

\* round(2) of a product of two numbers in hundredths: v counts
\* ten-thousandths, the result hundredths, halves go to the even neighbour.
Round2(v) ==
    LET q == v \div 100
        r == v % 100
    IN  IF r > 50 \/ (r = 50 /\ q % 2 = 1) THEN q + 1 ELSE q

\* (df["MC_USD_Billion"] * rate).round(2)
Converted(df, rate) ==
    [i \in 1..Len(df["MC_USD_Billion"]) |-> Round2(df["MC_USD_Billion"][i] * rate)]

\* The loop of lines 76-77 over currencies[i..]: df gets its columns one
\* at a time, until a currency is missing from exchange_rate.
RECURSIVE Convert(_, _, _)
Convert(df, exchange_rate, i) ==
    IF i > Len(currencies) THEN [exc |-> NoExc, df |-> df]
    ELSE IF currencies[i] \notin DOMAIN exchange_rate
         THEN [exc |-> "KeyError", df |-> df]
    ELSE Convert(SetColumn(df, Column(currencies[i]),
                           Converted(df, exchange_rate[currencies[i]])),
                 exchange_rate, i + 1)

\* The row limit of the sample query and of query3.
TopN == 5

Select(column, limit) == [kind |-> "select", column |-> column, limit |-> limit]

CountQuery == [kind |-> "count", column |-> "*", limit |-> 0]
SampleQuery == Select("*", TopN)
query1 == Select("*", 0)
query2 == [kind |-> "avg", column |-> "MC_GBP_Billion", limit |-> 0]
query3 == Select("Name", TopN)

RECURSIVE Sum(_)
Sum(s) == IF s = <<>> THEN 0 ELSE s[1] + Sum(Tail(s))

\* LIMIT limit (0: no LIMIT clause).
Limit(column, limit) ==
    IF limit = 0 \/ Len(column) <= limit THEN column ELSE SubSeq(column, 1, limit)

\* SUM(column) where AVG(column) is meant.
Avg_as_sum(column) == [num |-> Sum(column), den |-> 1]

\* AVG(column): the exact fraction num/den (den = 0: NULL).
Avg(column) == [num |-> Sum(column), den |-> Len(column)]

\* The result set of a query on table t, as the frame pd.read_sql returns.
ResultSet(query, t) ==
    CASE query.kind = "count" -> [row_count |-> <<NRows(t)>>]
      [] query.kind = "avg" -> [Avg_MC_GBP_Billion |-> <<Avg(t[query.column])>>]
      [] query.kind = "select" /\ query.column = "*" ->
            [c \in DOMAIN t |-> Limit(t[c], query.limit)]
      [] OTHER ->
            [c \in {query.column} |-> Limit(t[c], query.limit)]

\* pd.read_sql(query, sql_connection) on the store's table (<<>>: no table).
read_sql(query, conn, table, faulty) ==
    IF ~conn.open THEN [exc |-> "ProgrammingError", result |-> <<>>]
    ELSE IF faulty \/ table = <<>>
              \/ (query.column # "*" /\ query.column \notin DOMAIN table[1])
         THEN [exc |-> "DatabaseError", result |-> <<>>]
    ELSE [exc |-> NoExc, result |-> ResultSet(query, table[1])]

\* df.to_sql(name, con, if_exists='replace', index=False): how the call
\* ends is the store's: "ok", or a failure before the old table is
\* dropped, after it is dropped, or after the new one is created.
ToSqlOutcomes == {"ok", "failed", "failed_dropped", "failed_created"}

\* The rows of df after those of table t.
AppendRows(t, df) ==
    [c \in DOMAIN t |-> t[c] \o (IF c \in DOMAIN df THEN df[c] ELSE <<>>)]

\* to_sql with if_exists='append'.
to_sql_append(df, conn, table, outcome) ==
    IF ~conn.open THEN [exc |-> "ProgrammingError", table |-> table]
    ELSE IF outcome # "ok" THEN [exc |-> "DatabaseError", table |-> table]
    ELSE [exc |-> NoExc,
          table |-> IF table = <<>> THEN <<df>> ELSE <<AppendRows(table[1], df)>>]

to_sql(df, conn, table, outcome) ==
    IF ~conn.open THEN [exc |-> "ProgrammingError", table |-> table]
    ELSE CASE outcome = "ok" -> [exc |-> NoExc, table |-> <<df>>]
           [] outcome = "failed" -> [exc |-> "DatabaseError", table |-> table]
           [] outcome = "failed_dropped" -> [exc |-> "DatabaseError", table |-> <<>>]
           [] OTHER ->
                [exc |-> "DatabaseError", table |-> <<[c \in DOMAIN df |-> <<>>]>>]

\* A connection remembers the block that opened it and the blocks that
\* called close on it, in order.
connect(cs, phase) == Append(cs, [openedIn |-> phase, open |-> TRUE, closedIn |-> <<>>])

close(cs, i, phase) ==
    [cs EXCEPT ![i].open = FALSE, ![i].closedIn = Append(@, phase)]

(***************************************************************************)
(* Execution.  A machine is what a function of the script works on: the    *)
(* exception being raised (exc), the log sink, the frame df, the CSV file, *)
(* the table, the connections and sql_connection (cur), the last result    *)
(* of read_sql, the results run_queries returned, the history, and env,    *)
(* what the environment does during the statement: the page and whether    *)
(* the fetch succeeds, exchange_rate.csv, whether the CSV file can be      *)
(* written, and the store's fault.                                         *)
(***************************************************************************)
Machine(entries, medium, df, file, table, cs, cur, env) ==
    [exc |-> NoExc, sink |-> OpenSink(entries, medium), df |-> df, file |-> file,
     table |-> table, conns |-> cs, cur |-> cur, result |-> <<>>,
     results |-> <<>>, events |-> <<>>, env |-> env]

Env(pg, fetchOk, rates, writeOk, fault) ==
    [page |-> pg, fetchOk |-> fetchOk, rateFile |-> rates, writeOk |-> writeOk,
     fault |-> fault]

Log(message) == [do |-> "log", message |-> message]
Do(what) == [do |-> what]
ReadSql(query, name) == [do |-> "read_sql", query |-> query, name |-> name]
Connect(phase) == [do |-> "connect", phase |-> phase]
RunQuery(query, name) == [do |-> "run_queries", query |-> query, name |-> name]

Raise(m, e) == [m EXCEPT !.exc = e]

Logged(m, sink) ==
    [m EXCEPT !.sink = sink, !.exc = IF sink.raised THEN "OSError" ELSE NoExc]

\* m after a call that returned r: its exception, and its value in field.
With(m, field, r) == [m EXCEPT !.exc = r.exc, ![field] = r[field]]

\* The frame of extract is a local: df_extracted is bound when it returns.
Parsed(m, r) == [m EXCEPT !.exc = r.exc, !.df = IF r.exc = NoExc THEN r.df ELSE @]

\* One statement of a function body.
Step(op, m) ==
    CASE op.do = "log" -> Logged(m, log_progress(m.sink, op.message))
      [] op.do = "log_count" ->
            Logged(m, log_count(m.sink, op.message, m.result["row_count"][1]))
      [] op.do = "get" ->
            IF m.env.fetchOk THEN m ELSE Raise(m, "ConnectionError")
      [] op.do = "parse" -> Parsed(m, Parse(m.env.page))
      [] op.do = "read_csv" ->
            IF m.env.rateFile.readable THEN m ELSE Raise(m, "FileNotFoundError")
      [] op.do = "convert" -> With(m, "df", Convert(m.df, m.env.rateFile.rates, 1))
      [] op.do = "to_csv" ->
            IF m.env.writeOk THEN [m EXCEPT !.file = <<m.df>>]
            ELSE Raise(m, "PermissionError")
      [] op.do = "to_sql" ->
            With(m, "table",
                 to_sql(m.df, m.conns[m.cur], m.table,
                        IF m.env.fault \in ToSqlOutcomes THEN m.env.fault ELSE "ok"))
      [] op.do = "read_sql" ->
            With(m, "result",
                 read_sql(op.query, m.conns[m.cur], m.table, m.env.fault = op.name))
      [] op.do = "connect" ->
            IF m.env.fault = "connect" THEN Raise(m, "OperationalError")
            ELSE [m EXCEPT !.conns = connect(m.conns, op.phase),
                           !.cur = Len(m.conns) + 1]

\* The statements ops in order, until one raises.
RECURSIVE Run(_, _)
Run(ops, m) ==
    IF ops = <<>> \/ m.exc # NoExc THEN m
    ELSE Run(Tail(ops), Step(Head(ops), m))

Event(stage, what) == [stage |-> stage, what |-> what]

Entered(stage, m) == [m EXCEPT !.events = Append(@, Event(stage, "call"))]

Left(stage, m) ==
    [m EXCEPT !.events =
        Append(@, Event(stage, IF m.exc = NoExc THEN "return" ELSE "raise"))]

\* "except Exception as e: log_progress(message + str(e)); raise"
Reraised(m, sink) ==
    [m EXCEPT !.sink = sink, !.exc = IF sink.raised THEN "OSError" ELSE @]

Handled(m, message) ==
    IF m.exc = NoExc THEN m
    ELSE Reraised(m, log_error(m.sink, message, m.exc))

(***************************************************************************)
(* The functions of the script.                                            *)
(***************************************************************************)
\* extract (lines 32-55): no try.
ExtractBody ==
    << Log("Starting data extraction"),
       Do("get"),
       Do("parse"),
       Log("Data extraction complete") >>

extract(m) == Left("extract", Run(ExtractBody, Entered("extract", m)))

\* transform (lines 66-84).
TransformBody ==
    << Log("Starting data transformation"),
       Do("read_csv"),
       Do("convert"),
       Log("Data transformation complete") >>

transform(m) ==
    Left("transform",
         Handled(Run(TransformBody, Entered("transform", m)),
                 "Error during transformation"))

\* load_to_csv (lines 95-105).
LoadToCsvBody ==
    << Log("Saving data to CSV file"),
       Do("to_csv"),
       Log("Data saved to CSV file") >>

load_to_csv(m) ==
    Left("load_to_csv",
         Handled(Run(LoadToCsvBody, Entered("load_to_csv", m)),
                 "Error while saving to CSV"))

\* load_to_db (lines 114-147).
LoadToDbBody ==
    << Log("Starting to load data to table"),
       Do("to_sql"),
       Log("Data successfully loaded to table"),
       ReadSql(CountQuery, "count"),
       [do |-> "log_count", message |-> "Verified rows loaded"] >>

load_to_db(m) ==
    Left("load_to_db",
         Handled(Run(LoadToDbBody, Entered("load_to_db", m)),
                 "Error loading data to database"))

\* run_queries (lines 181-204); the result is kept when the call returns.
RunQueriesBody(query, name) ==
    << Log("Executing query"),
       ReadSql(query, name),
       Log("Query executed successfully") >>

Returned(m) ==
    IF m.exc = NoExc THEN [m EXCEPT !.results = Append(@, m.result)] ELSE m

run_queries(query, name, m) ==
    Left("run_queries",
         Returned(Handled(Run(RunQueriesBody(query, name), Entered("run_queries", m)),
                          "Query failed")))

(***************************************************************************)
(* The two database blocks of the script.                                  *)
(***************************************************************************)
BlockStep(op, m) ==
    CASE op.do = "load_to_db" -> load_to_db(m)
      [] op.do = "run_queries" -> run_queries(op.query, op.name, m)
      [] OTHER -> Step(op, m)

RECURSIVE RunBlock(_, _)
RunBlock(ops, m) ==
    IF ops = <<>> \/ m.exc # NoExc THEN m
    ELSE RunBlock(Tail(ops), BlockStep(Head(ops), m))

\* Lines 151-166, the body of the try of the loading block.
LoadBlockBody ==
    << Log("Initiating SQLite database connection"),
       Connect("load"),
       Log("Successfully connected to Banks.db"),
       Do("load_to_db"),
       ReadSql(SampleQuery, "sample"),
       Log("Database operations completed successfully") >>

LoadFaults == {"none", "connect", "count", "sample"} \cup (ToSqlOutcomes \ {"ok"})

\* Lines 208-223, the body of the try of the query block.
QueryBlockBody ==
    << Log("Reconnecting to database for queries"),
       Connect("query"),
       RunQuery(query1, "query1"),
       RunQuery(query2, "query2"),
       RunQuery(query3, "query3"),
       Log("All queries executed") >>

QueryFaults == {"none", "connect", "query1", "query2", "query3"}

\* "except Exception as e: log_progress(message + str(e))" (lines 168-170,
\* 225-226): the exception is swallowed unless logging it raises.
Caught(m, message) ==
    IF m.exc = NoExc THEN m
    ELSE Logged(m, log_error(m.sink, message, m.exc))

\* The finally clause (lines 172-177, 228-231): whatever sql_connection
\* names, if the name is bound, is closed, and that is logged.  The
\* exception that leaves the block is the clause's own or the pending one.
Closed(m, phase) == [m EXCEPT !.conns = close(@, m.cur, phase)]

Finally(m, phase) ==
    IF m.cur = 0 THEN m
    ELSE Reraised(Closed(m, phase),
                  log_progress(m.sink, "Database connection closed"))

LoadBlock(m) ==
    Finally(Caught(RunBlock(LoadBlockBody, m), "Database operation failed"), "load")

QueryBlock(m) ==
    Finally(Caught(RunBlock(QueryBlockBody, m), "Database query error"), "query")

\* The history entry of a statement during which a log_progress call raised.
LogEvents(sink) ==
    IF sink.failed THEN <<Event("log_progress", "raise")>> ELSE <<>>

(***************************************************************************)
(* The script: one action per top-level statement.  An exception that      *)
(* leaves a top-level statement ends the script (pc = "crashed").          *)
(***************************************************************************)
Init ==
    /\ pc = "extract"
    /\ page \in Pages
    /\ rateFile \in RateFiles
    /\ bound = {}
    /\ frame = <<>>
    /\ log = <<>>
    /\ csv = <<>>
    /\ db \in PriorTables
    /\ conns = <<>>
    /\ sql_connection = 0
    /\ results = <<>>
    /\ events = <<>>

\* The machine a top-level statement starts on.
Start(medium, fetchOk, writeOk, fault) ==
    Machine(log, medium, frame, csv, db, conns, sql_connection,
            Env(page, fetchOk, rateFile, writeOk, fault))

\* What every statement leaves in the files and the history.
Effects(m) ==
    /\ log' = m.sink.entries
    /\ events' = events \o m.events \o LogEvents(m.sink)

\* The name is bound when the call that is assigned to it returns.
Bind(name, m) ==
    bound' = IF m.exc = NoExc THEN bound \cup {name} ELSE bound

\* The next statement when m raises nothing; the end of the script otherwise.
Goto(next, m) ==
    pc' = IF m.exc = NoExc THEN next ELSE "crashed"

Extracted(m) ==
    /\ Effects(m)
    /\ frame' = m.df
    /\ Bind("df_extracted", m)
    /\ Goto("transform", m)

\* Line 62: df_extracted = extract(url, table_attribs)
Extract ==
    /\ pc = "extract"
    /\ \E fetchOk \in BOOLEAN, medium \in Sinks :
          Extracted(extract(Start(medium, fetchOk, TRUE, "none")))
    /\ UNCHANGED <<page, rateFile, csv, db, conns, sql_connection, results>>

\* Lines 87-92.  transform works on the object df_extracted names; the name
\* df_transformed is bound only if transform returns.  Line 90 raises
\* IndexError on a frame of fewer than 5 rows, which line 91 catches as well.
Transformed(m) ==
    /\ Effects(m)
    /\ frame' = m.df
    /\ Bind("df_transformed", m)
    /\ pc' = "load_to_csv"

Transform ==
    /\ pc = "transform"
    /\ \E medium \in Sinks : Transformed(transform(Start(medium, TRUE, TRUE, "none")))
    /\ UNCHANGED <<page, rateFile, csv, db, conns, sql_connection, results>>

\* Line 111: load_to_csv(df_transformed, output_csv_path); NameError when
\* df_transformed is unbound.
Saved(m) ==
    /\ Effects(m)
    /\ csv' = m.file
    /\ Goto("db_load", m)

LoadToCsv ==
    /\ pc = "load_to_csv"
    /\ IF "df_transformed" \notin bound
       THEN /\ pc' = "crashed"
            /\ UNCHANGED <<log, events, csv>>
       ELSE \E writeOk \in BOOLEAN, medium \in Sinks :
               Saved(load_to_csv(Start(medium, TRUE, writeOk, "none")))
    /\ UNCHANGED <<page, rateFile, bound, frame, db, conns, sql_connection, results>>

\* Lines 150-177.
Loaded(m) ==
    /\ Effects(m)
    /\ conns' = m.conns
    /\ sql_connection' = m.cur
    /\ db' = m.table
    /\ Goto("db_query", m)

DbLoad ==
    /\ pc = "db_load"
    /\ \E fault \in LoadFaults, medium \in Sinks :
          Loaded(LoadBlock(Start(medium, TRUE, TRUE, fault)))
    /\ UNCHANGED <<page, rateFile, bound, frame, csv, results>>

\* Lines 207-231.
Queried(m) ==
    /\ Effects(m)
    /\ conns' = m.conns
    /\ sql_connection' = m.cur
    /\ results' = m.results
    /\ Goto("verify_log", m)

DbQuery ==
    /\ pc = "db_query"
    /\ \E fault \in QueryFaults, medium \in Sinks :
          Queried(QueryBlock(Start(medium, TRUE, TRUE, fault)))
    /\ UNCHANGED <<page, rateFile, bound, frame, csv, db>>

\* Lines 234-236: the log file is opened for reading and printed.
VerifyLog ==
    /\ pc = "verify_log"
    /\ \E readable \in BOOLEAN : pc' = IF readable THEN "done" ELSE "crashed"
    /\ UNCHANGED <<page, rateFile, bound, frame, log, csv, db, conns,
                   sql_connection, results, events>>

Next == Extract \/ Transform \/ LoadToCsv \/ DbLoad \/ DbQuery \/ VerifyLog

Spec == Init /\ [][Next]_vars

(***************************************************************************)
(* load_to_db on its own: a frame R and a table left by an earlier run are *)
(* drawn, a connection is open, and load_to_db(R) is called twice.         *)
(***************************************************************************)
AllRates == Rates({"GBP", "EUR", "INR"})

ExtractedFrames == {Parse(<<t>>).df : t \in SeqsUpTo(GoodRows, MaxRows)}

EnrichedFrames == {Convert(df, AllRates, 1).df : df \in ExtractedFrames}

InitLoad ==
    /\ pc = "load_to_db"
    /\ page = <<>>
    /\ rateFile = [readable |-> TRUE, rates |-> AllRates]
    /\ bound = {"df_extracted", "df_transformed"}
    /\ frame \in ExtractedFrames \cup EnrichedFrames
    /\ log = <<>>
    /\ csv = <<>>
    /\ db \in PriorTables
    /\ conns = connect(<<>>, "load")
    /\ sql_connection = 1
    /\ results = <<>>
    /\ events = <<>>

LoadedAgain(next, m) ==
    /\ Effects(m)
    /\ db' = m.table
    /\ pc' = IF m.exc = NoExc THEN next ELSE "load_failed"
    /\ UNCHANGED <<page, rateFile, bound, frame, csv, conns, sql_connection, results>>

LoadFirst ==
    /\ pc = "load_to_db"
    /\ \E fault \in LoadFaults \ {"connect", "sample"}, medium \in Sinks :
          LoadedAgain("loaded_once", load_to_db(Start(medium, TRUE, TRUE, fault)))

LoadSecond ==
    /\ pc = "loaded_once"
    /\ \E fault \in LoadFaults \ {"connect", "sample"}, medium \in Sinks :
          LoadedAgain("loaded_twice", load_to_db(Start(medium, TRUE, TRUE, fault)))

NextLoad == LoadFirst \/ LoadSecond

SpecLoad == InitLoad /\ [][NextLoad]_vars

(***************************************************************************)
(* Properties.                                                             *)
(***************************************************************************)
Stages == {"extract", "transform", "load_to_csv", "load_to_db", "run_queries"}

Happened(stage, what) ==
    \E i \in 1..Len(events) : events[i] = Event(stage, what)

Count(message) == Cardinality({k \in 1..Len(log) : log[k].message = message})

\* C1: transform is all-or-nothing.  On a record set that has records, the
\* three derived columns are present all together or not at all, and when
\* exchange_rate.csv lacks one of GBP, EUR, INR, transform raises and the
\* record set carries none of them.
C1_TransformAllOrNothing ==
    NRows(frame) >= 1
    => /\ DerivedColumns \cap DOMAIN frame \in {{}, DerivedColumns}
       /\ ( /\ Happened("transform", "call")
            /\ rateFile.readable
            /\ \E i \in 1..Len(currencies) : currencies[i] \notin DOMAIN rateFile.rates )
          => /\ Happened("transform", "raise")
             /\ DerivedColumns \cap DOMAIN frame = {}

\* C2: once a stage has raised, no later stage of the run is started.
C2_FailureAbortsDownstream ==
    \A i, j \in 1..Len(events) :
        ( /\ i < j
          /\ events[i].stage \in Stages
          /\ events[i].what = "raise"
          /\ events[j].stage \in Stages )
        => events[j].what # "call"

\* C3: whichever stage raises, no exception leaves the top-level script:
\* the script does not end before its last statement.
C3_NoExceptionEscapes ==
    (\E i \in 1..Len(events) : events[i].stage \in Stages /\ events[i].what = "raise")
    => pc # "crashed"

\* C4: between the statements of the script every connection is closed, and
\* close has only been called on a connection by the block that opened it.
C4_ConnectionsClosedByOwnBlock ==
    \A i \in 1..Len(conns) :
        /\ ~conns[i].open
        /\ \A k \in 1..Len(conns[i].closedIn) : conns[i].closedIn[k] = conns[i].openedIn

\* The error entry each stage writes when it fails.
ErrorMessage(stage) ==
    CASE stage = "extract" -> "Error during extraction"
      [] stage = "transform" -> "Error during transformation"
      [] stage = "load_to_csv" -> "Error while saving to CSV"
      [] stage = "load_to_db" -> "Error loading data to database"
      [] stage = "run_queries" -> "Query failed"

\* C5: whenever a stage has raised to its caller, the log holds the stage's
\* error entry.
C5_ErrorLoggedBeforeRaise ==
    \A i \in 1..Len(events) :
        (events[i].stage \in Stages /\ events[i].what = "raise")
        => Count(ErrorMessage(events[i].stage)) >= 1

\* C6: after load_to_db(R) has returned, once or twice, table Largest_banks
\* holds exactly R whatever it held before, every row count logged is the
\* number of records of R, and one count is logged per call.
C6_LoadReplacesTable ==
    pc \in {"loaded_once", "loaded_twice"}
    => /\ db = <<frame>>
       /\ \A k \in 1..Len(log) :
             log[k].message = "Verified rows loaded" => log[k].n = NRows(frame)
       /\ Count("Verified rows loaded") = IF pc = "loaded_once" THEN 1 ELSE 2

C6_LoadedTwice ==
    /\ pc = "loaded_twice"
    /\ NRows(frame) >= 2
    /\ db = <<frame>>
    /\ Count("Verified rows loaded") = 2

IsDataRow(row) == row.tds # 0

\* MC_USD_Billion, in hundredths, of the banks of the page.
Capitalisation(title) ==
    CASE title = "A" -> 10000
      [] title = "B" -> 5000
      [] title = "C" -> 1000

\* C7: when extract has returned, the frame holds one record per row of the
\* first tbody that has data cells, in the order of the rows.
C7_OneRecordPerDataRow ==
    "df_extracted" \in bound
    => /\ page # <<>>
       /\ Len(frame["Name"]) = Len(SelectSeq(page[1], IsDataRow))
       /\ Len(frame["MC_USD_Billion"]) = Len(SelectSeq(page[1], IsDataRow))
       /\ \A k \in 1..Len(frame["Name"]) :
             /\ frame["Name"][k] = SelectSeq(page[1], IsDataRow)[k].title
             /\ frame["MC_USD_Billion"][k] = Capitalisation(frame["Name"][k])

C7_ExtractedAroundHeader ==
    /\ "df_extracted" \in bound
    /\ Len(page) = 2
    /\ Len(page[1]) = 3
    /\ page[1][2] = HeaderRow
    /\ frame["Name"] = <<"C", "A">>

\* The run of the end-to-end scenario: records of 100.0, 50.0 and 10.0,
\* the rates 0.8, 0.93 and 82.5, and every stage up to load_to_db returned.
ScenarioRun ==
    /\ Happened("load_to_db", "return")
    /\ frame["MC_USD_Billion"] = <<10000, 5000, 1000>>
    /\ rateFile.readable
    /\ rateFile.rates = AllRates

FirstRecord(df) == [c \in DOMAIN df |-> df[c][1]]

ScenarioRecord ==
    [Name |-> "A", MC_USD_Billion |-> 10000, MC_GBP_Billion |-> 8000,
     MC_EUR_Billion |-> 9300, MC_INR_Billion |-> 825000]

\* C8 as stated: in the scenario the first record is enriched to
\* {Name, 100.0, 80.0, 93.0, 8250.0}, the average query returns 56.0, and
\* query3 returns the three names in extraction order.
C8_ScenarioAsStated ==
    ScenarioRun
    => /\ FirstRecord(frame) = ScenarioRecord
       /\ Len(results) >= 2 =>
             /\ results[2]["Avg_MC_GBP_Billion"][1].den > 0
             /\ results[2]["Avg_MC_GBP_Billion"][1].num
                   = 5600 * results[2]["Avg_MC_GBP_Billion"][1].den
       /\ Len(results) >= 3 => results[3]["Name"] = <<"A", "B", "C">>

\* C8, amended: in the scenario the first record is enriched to
\* {Name, 100.0, 80.0, 93.0, 8250.0}, the average query returns 128/3
\* (42.67), and query3 returns the three names in extraction order.
C8_Scenario ==
    ScenarioRun
    => /\ FirstRecord(frame) = ScenarioRecord
       /\ Len(results) >= 2 =>
             results[2]["Avg_MC_GBP_Billion"] = <<[num |-> 12800, den |-> 3]>>
       /\ Len(results) >= 3 => results[3]["Name"] = <<"A", "B", "C">>

C8_ScenarioQueried ==
    /\ ScenarioRun
    /\ pc = "done"
    /\ Len(results) = 3

\* C9: transform leaves the extracted record set as extract returned it:
\* whenever df_extracted is bound to a record set that has records, the set
\* has the columns Name and MC_USD_Billion, with the values of the page.
C9_ExtractedFrameUnchanged ==
    ("df_extracted" \in bound /\ NRows(frame) >= 1)
    => /\ DOMAIN frame = {"Name", "MC_USD_Billion"}
       /\ frame = Parse(page).df

\* C10: log_progress never raises.
C10_LoggerNeverRaises == ~Happened("log_progress", "raise")

====
